---- MODULE Spec2Model ----
(***************************************************************************)
(* A model of google_ads_data/ga_utils.py: the login-customer search, the  *)
(* service factory, the string-case helpers, the dotted-path lookup, the   *)
(* account clock, the query builder, the query executor and get_ga_data.   *)
(*                                                                         *)
(* Python strings are sequences of one-character strings, so that split,   *)
(* replace, int(), lower(), capitalize() and strftime() are computed and   *)
(* not assumed.  Python values that a variable may hold in several types   *)
(* are records tagged by "kind".  One behaviour is one call of one public  *)
(* operation, with the calls it makes in turn.                             *)
(***************************************************************************)
EXTENDS Integers, Sequences, FiniteSets, TLC

VARIABLES
    entry,          \* the public operation that was called
    pc,             \* position of the call
    caller,         \* who asked get_ga_api_service for the service
    custId,         \* argument custId (a digit string)
    refreshToken,   \* what cust_id_to_refresh_token gave / the argument
    directIds,      \* get_login_customer_id: directIds
    hierarchy,      \* outcome of the hierarchy query of each listed parent
    tried,          \* get_login_customer_id: parents the loop has been through
    loginResult,    \* outcome of get_login_customer_id
    svcResult,      \* outcome of get_ga_api_service
    queried,        \* hierarchy queries issued (googleAdsService.search)
    ssmReads,       \* secrets-store reads (make_base_ga_config_dict calls)
    clientBuilds,   \* GoogleAdsClient.load_from_dict calls
    listCalls,      \* list_accessible_customers calls
    zoneSearches,   \* customer.time_zone searches
    streamCalls,    \* search_stream calls
    ident,          \* round trip: the identifier x
    snake,          \* round trip: camel_to_snake(x)
    camel,          \* round trip: snake_to_camel(camel_to_snake(x))
    nKey,           \* get_nested_dict_value: key
    nDict,          \* get_nested_dict_value: d
    nResult,        \* get_nested_dict_value: outcome
    qStart,         \* make_base_query: start
    qEnd,           \* make_base_query: end
    qZero,          \* make_base_query: zeroImpressions
    qFields,        \* make_base_query: fields
    qUtcNow,        \* the clock: current UTC wall time
    qSysOffset,     \* UTC offset (hours) of the host's local timezone
    qTzOffset,      \* UTC offset (hours) of customer.time_zone
    qNow,           \* account_time: outcome
    qResult,        \* account_date, make_base_query: outcome
    dWheres,        \* get_ga_data: wheres
    xFields,        \* execute_query: fields
    xQuery,         \* execute_query: query
    xCamel,         \* execute_query: camelFields
    xStream,        \* execute_query: the batches received so far
    xRows,          \* execute_query: rows
    xResult         \* execute_query, get_ga_data: outcome

authLocals == <<refreshToken, directIds, hierarchy, tried, loginResult, svcResult>>

effects == <<queried, ssmReads, clientBuilds, listCalls, zoneSearches, streamCalls>>

authVars == <<entry, pc, caller, custId, authLocals, effects>>

caseVars == <<ident, snake, camel>>

nestedVars == <<nKey, nDict, nResult>>

queryVars == <<qStart, qEnd, qZero, qFields, qUtcNow, qSysOffset, qTzOffset,
               qNow, qResult>>

execVars == <<dWheres, xFields, xQuery, xCamel, xStream, xRows, xResult>>

vars == <<authVars, caseVars, nestedVars, queryVars, execVars>>

----------------------------------------------------------------------------
(* Bounds *)

\* most top-level accounts in one listing
MaxParents == 2

\* the same, when the service is fetched for account_time or execute_query
MaxNestedParents == 1

----------------------------------------------------------------------------
(* Python values *)

PyNone == [kind |-> "None"]
Pending == [kind |-> "pending"]
Returned(v) == [kind |-> "return", val |-> v]
Raised(e) == [kind |-> "raise", exc |-> e]

RECURSIVE SeqsUpTo(_, _)
SeqsUpTo(S, n) ==
    IF n = 0 THEN {<<>>}
    ELSE LET shorter == SeqsUpTo(S, n - 1)
         IN  shorter \cup {Append(s, x) : s \in shorter, x \in S}

----------------------------------------------------------------------------
(* get_login_customer_id, lines 55-92 *)

DigitChars == <<"0", "1", "2", "3", "4", "5", "6", "7", "8", "9">>

DigitVal(c) == (CHOOSE n \in 1..10 : DigitChars[n] = c) - 1

\* int(custId) of a non-empty string of decimal digits
RECURSIVE PyInt(_)
PyInt(s) ==
    IF Len(s) = 1 THEN DigitVal(s[1])
    ELSE 10 * PyInt(SubSeq(s, 1, Len(s) - 1)) + DigitVal(s[Len(s)])

\* customer ids as strings: "1" and "01" differ as strings, not as numbers
IdStrings == {<<"1">>, <<"0", "1">>, <<"2">>}

\* customer_client.id values of a response
ClientLists == {<<>>, <<1>>, <<2>>, <<2, 1>>}

ResourceName(id) == <<"customers/">> \o id

\* rn.replace("customers/", "")
StripCustomers(rn) == SelectSeq(rn, LAMBDA c : c # "customers/")

Listings == SeqsUpTo({ResourceName(id) : id \in IdStrings}, MaxParents)

\* the listings drawn for a call made on behalf of who
ListingsFor(who) ==
    IF who \in {"none", "top"} THEN Listings
    ELSE SeqsUpTo({ResourceName(id) : id \in IdStrings}, MaxNestedParents)

\* what googleAdsService.search does for one parent: a response, a
\* GoogleAdsException, or the RetryError that Retry(maximum=8, deadline=15)
\* raises when its deadline passes
QueryOutcomes ==
    {[kind |-> "ok", results |-> r] : r \in ClientLists}
        \cup {Raised("GoogleAdsException"), Raised("RetryError")}

CatchesNothing(exc) == FALSE

CatchesAll(exc) == TRUE

\* except GoogleAdsException
Catches(exc) == exc = "GoogleAdsException"

IsDirectFirstOnly(id, ids) == Len(ids) > 0 /\ ids[1] = id

\* custId in directIds
IsDirect(id, ids) == \E i \in 1..Len(ids) : ids[i] = id

ContainsTargetFirstOnly(results, id) ==
    Len(results) > 0 /\ results[1] = PyInt(id)

ContainsTargetTruthy(results, id) ==
    \E i \in 1..Len(results) : results[i] # 0

\* for result in response.results: if result.customer_client.id == int(custId)
ContainsTarget(results, id) ==
    \E i \in 1..Len(results) : results[i] = PyInt(id)

TokenNeverMissing(tok) == FALSE

\* refreshToken is None
TokenMissing(tok) == tok = PyNone

\* lines 56-70: build the client, list the accessible customers, return
\* custId when it is one of them.  The listing and what the service will
\* answer for each listed parent are the environment's choice, fixed here.
LoginList ==
    /\ pc = "login_start"
    /\ ssmReads' = ssmReads + 1
    /\ clientBuilds' = clientBuilds + 1
    /\ listCalls' = listCalls + 1
    /\ tried' = 0
    /\ \E rns \in ListingsFor(caller) :
         LET ids == [i \in 1..Len(rns) |-> StripCustomers(rns[i])]
         IN  /\ directIds' = ids
             /\ \E h \in [1..Len(rns) -> QueryOutcomes] : hierarchy' = h
             /\ IF IsDirect(custId, ids)
                THEN /\ loginResult' = Returned(custId)
                     /\ pc' = "login_done"
                ELSE /\ loginResult' = loginResult
                     /\ pc' = "login_loop"
    /\ UNCHANGED <<entry, caller, custId, refreshToken, svcResult, queried,
                   zoneSearches, streamCalls>>
    /\ UNCHANGED <<caseVars, nestedVars, queryVars, execVars>>

\* lines 78-90: one iteration of the loop over directIds
LoginQuery ==
    /\ pc = "login_loop"
    /\ tried < Len(directIds)
    /\ tried' = tried + 1
    /\ queried' = queried + 1
    /\ LET parentId == directIds[tried + 1]
           outcome == hierarchy[tried + 1]
       IN  IF outcome.kind = "raise"
           THEN IF Catches(outcome.exc)
                THEN UNCHANGED <<pc, loginResult>>
                ELSE /\ loginResult' = outcome
                     /\ pc' = "login_done"
           ELSE IF ContainsTarget(outcome.results, custId)
                THEN /\ loginResult' = Returned(parentId)
                     /\ pc' = "login_done"
                ELSE UNCHANGED <<pc, loginResult>>
    /\ UNCHANGED <<entry, caller, custId, refreshToken, directIds, hierarchy,
                   svcResult, ssmReads, clientBuilds, listCalls, zoneSearches,
                   streamCalls>>
    /\ UNCHANGED <<caseVars, nestedVars, queryVars, execVars>>

\* line 92: the loop ran out
LoginNotFound ==
    /\ pc = "login_loop"
    /\ tried = Len(directIds)
    /\ loginResult' = PyNone
    /\ pc' = "login_done"
    /\ UNCHANGED <<entry, caller, custId, refreshToken, directIds, hierarchy,
                   tried, svcResult, effects>>
    /\ UNCHANGED <<caseVars, nestedVars, queryVars, execVars>>

----------------------------------------------------------------------------
(* get_ga_api_service, lines 95-104 *)

Token == [kind |-> "token", name |-> "refresh-token"]

\* lines 96-100: look the token up; None ends the call
ServiceLookup ==
    /\ pc = "svc_start"
    /\ \E tok \in {PyNone, Token} :
         /\ refreshToken' = tok
         /\ IF TokenMissing(tok)
            THEN /\ svcResult' = PyNone
                 /\ pc' = "svc_done"
                 /\ UNCHANGED ssmReads
            ELSE /\ ssmReads' = ssmReads + 1
                 /\ pc' = "login_start"
                 /\ UNCHANGED svcResult
    /\ UNCHANGED <<entry, caller, custId, directIds, hierarchy, tried,
                   loginResult, queried, clientBuilds, listCalls, zoneSearches,
                   streamCalls>>
    /\ UNCHANGED <<caseVars, nestedVars, queryVars, execVars>>

\* lines 101-104: with the login customer id, build the client and the
\* service; an exception of get_login_customer_id leaves the call
ServiceBuild ==
    /\ pc = "login_done"
    /\ caller # "none"
    /\ IF loginResult.kind = "raise"
       THEN /\ svcResult' = loginResult
            /\ UNCHANGED clientBuilds
       ELSE /\ svcResult' = [kind |-> "service", login |-> loginResult]
            /\ clientBuilds' = clientBuilds + 1
    /\ pc' = "svc_done"
    /\ UNCHANGED <<entry, caller, custId, refreshToken, directIds, hierarchy,
                   tried, loginResult, queried, ssmReads, listCalls,
                   zoneSearches, streamCalls>>
    /\ UNCHANGED <<caseVars, nestedVars, queryVars, execVars>>

----------------------------------------------------------------------------
(* camel_to_snake and snake_to_camel, lines 107-114 *)

LowerLetters == <<"a", "b", "c", "d", "e", "f", "g", "h", "i", "j", "k", "l",
                  "m", "n", "o", "p", "q", "r", "s", "t", "u", "v", "w", "x",
                  "y", "z">>

UpperLetters == <<"A", "B", "C", "D", "E", "F", "G", "H", "I", "J", "K", "L",
                  "M", "N", "O", "P", "Q", "R", "S", "T", "U", "V", "W", "X",
                  "Y", "Z">>

\* the regular expression class [A-Z]
IsUpper(c) == \E n \in 1..Len(UpperLetters) : UpperLetters[n] = c

IsLower(c) == \E n \in 1..Len(LowerLetters) : LowerLetters[n] = c

\* str.lower() of one character
LowerChar(c) ==
    IF IsUpper(c)
    THEN LowerLetters[CHOOSE n \in 1..Len(UpperLetters) : UpperLetters[n] = c]
    ELSE c

\* str.upper() of one character
UpperChar(c) ==
    IF IsLower(c)
    THEN UpperLetters[CHOOSE n \in 1..Len(LowerLetters) : LowerLetters[n] = c]
    ELSE c

\* str.lower()
PyLower(s) == [i \in 1..Len(s) |-> LowerChar(s[i])]

CapitalizeKeepsCase(s) == s

\* str.capitalize(): the first character upper, the rest lower
Capitalize(s) ==
    [i \in 1..Len(s) |-> IF i = 1 THEN UpperChar(s[i]) ELSE LowerChar(s[i])]

\* str.split(sep) for a one-character separator: never an empty list
SplitOn(s, sep) ==
    LET parts[i \in 0..Len(s)] ==
            IF i = 0 THEN <<<<>>>>
            ELSE IF s[i] = sep THEN Append(parts[i - 1], <<>>)
            ELSE [parts[i - 1] EXCEPT ![Len(parts[i - 1])] = Append(@, s[i])]
    IN  parts[Len(s)]

\* "".join(list)
RECURSIVE JoinAll(_)
JoinAll(list) ==
    IF list = <<>> THEN <<>> ELSE Head(list) \o JoinAll(Tail(list))

\* pattern (?<!^)(?=[A-Z]) replaced by "_", then lower()
camel_to_snake(camelString) ==
    LET marked[i \in 0..Len(camelString)] ==
            IF i = 0 THEN <<>>
            ELSE marked[i - 1]
                 \o (IF i > 1 /\ IsUpper(camelString[i]) THEN <<"_">> ELSE <<>>)
                 \o <<camelString[i]>>
    IN  PyLower(marked[Len(camelString)])

\* temp[0] + "".join(s.capitalize() for s in temp[1:])
snake_to_camel(snakeString) ==
    LET temp == SplitOn(snakeString, "_")
    IN  temp[1] \o JoinAll([i \in 1..(Len(temp) - 1) |-> Capitalize(temp[i + 1])])

\* longest identifier of the round trip
MaxIdentLen == 4

IdentChars == {"a", "b", "A", "B", "_", "1"}

CamelToSnake ==
    /\ ident.kind = "str"
    /\ snake = Pending
    /\ snake' = [kind |-> "str", s |-> camel_to_snake(ident.s)]
    /\ UNCHANGED <<ident, camel>>
    /\ UNCHANGED <<authVars, nestedVars, queryVars, execVars>>

SnakeToCamel ==
    /\ snake.kind = "str"
    /\ camel = Pending
    /\ camel' = [kind |-> "str", s |-> snake_to_camel(snake.s)]
    /\ UNCHANGED <<ident, snake>>
    /\ UNCHANGED <<authVars, nestedVars, queryVars, execVars>>

----------------------------------------------------------------------------
(* get_nested_dict_value, lines 117-125 *)

\* values of the mapping MessageToDict returns: nested mappings, and leaves
\* that are numbers or strings
PyDict(items) == [kind |-> "dict", items |-> items]
PyNum(n) == [kind |-> "int", n |-> n]
PyStr(s) == [kind |-> "str", s |-> s]

ReturnedValue(v) == [kind |-> "return", value |-> v]

\* sub in s, for strings
IsSubstring(sub, s) ==
    \E i \in 0..(Len(s) - Len(sub)) : SubSeq(s, i + 1, i + Len(sub)) = sub

\* one pass of the loop body for each key, lines 119-123: "k not in d" is a
\* key test on a mapping, a substring test on a string, and a TypeError on a
\* number; d.get exists on mappings only
RECURSIVE WalkKeys(_, _)
WalkKeys(keys, d) ==
    IF keys = <<>> THEN ReturnedValue(d)
    ELSE LET k == Head(keys)
         IN  CASE d.kind = "dict" ->
                    IF k \notin DOMAIN d.items THEN ReturnedValue(PyNone)
                    ELSE WalkKeys(Tail(keys), d.items[k])
               [] d.kind = "str" ->
                    IF ~IsSubstring(k, d.s) THEN ReturnedValue(PyNone)
                    ELSE Raised("AttributeError")
               [] OTHER -> Raised("TypeError")

get_nested_dict_value(key, d) == WalkKeys(SplitOn(key, "."), d)

\* longest dotted path
MaxKeyLen == 3

KeyChars == {"a", "b", "."}

DictKeys == {<<"a">>, <<"b">>}

Leaves == {PyNum(5), PyStr(<<"b">>)}

\* every mapping with keys in DictKeys and values in V
DictsOver(V) ==
    UNION {{PyDict(f) : f \in [K -> V]} : K \in SUBSET DictKeys}

NestedDicts == DictsOver(Leaves \cup DictsOver(Leaves))

GetNested ==
    /\ nResult = Pending
    /\ nKey.kind = "str"
    /\ nResult' = get_nested_dict_value(nKey.s, nDict)
    /\ UNCHANGED <<nKey, nDict>>
    /\ UNCHANGED <<authVars, caseVars, queryVars, execVars>>

----------------------------------------------------------------------------
(* account_time, account_date and make_base_query, lines 128-230 *)

PyDate(y, m, d) == [kind |-> "date", y |-> y, m |-> m, d |-> d]
PyDateTime(y, m, d, h) == [kind |-> "datetime", y |-> y, m |-> m, d |-> d, h |-> h]

IsLeap(y) == (y % 4 = 0 /\ y % 100 # 0) \/ y % 400 = 0

DaysInMonth(y, m) ==
    IF m = 2 THEN (IF IsLeap(y) THEN 29 ELSE 28)
    ELSE IF m \in {4, 6, 9, 11} THEN 30 ELSE 31

NextDay(t) ==
    IF t.d < DaysInMonth(t.y, t.m) THEN [t EXCEPT !.d = t.d + 1]
    ELSE IF t.m < 12 THEN [t EXCEPT !.m = t.m + 1, !.d = 1]
    ELSE [t EXCEPT !.y = t.y + 1, !.m = 1, !.d = 1]

PrevDay(t) ==
    IF t.d > 1 THEN [t EXCEPT !.d = t.d - 1]
    ELSE IF t.m > 1 THEN [t EXCEPT !.m = t.m - 1, !.d = DaysInMonth(t.y, t.m - 1)]
    ELSE [t EXCEPT !.y = t.y - 1, !.m = 12, !.d = 31]

\* a wall-clock time moved by k hours, -24 < k < 24
ShiftHours(t, k) ==
    LET h == t.h + k
    IN  IF h < 0 THEN [PrevDay(t) EXCEPT !.h = h + 24]
        ELSE IF h > 23 THEN [NextDay(t) EXCEPT !.h = h - 24]
        ELSE [t EXCEPT !.h = h]

\* datetime.date()
DateOf(t) == PyDate(t.y, t.m, t.d)

\* naive.astimezone(tz): a naive datetime is taken to be in the host's local
\* timezone, so the instant is naive - sysOffset, shown in tz
AsTimezone(naive, sysOffset, tzOffset) ==
    ShiftHours(ShiftHours(naive, 0 - sysOffset), tzOffset)

\* lines 145-146: datetime.datetime.utcnow().astimezone(tz)
account_time(utcNow, sysOffset, tzOffset) ==
    AsTimezone(utcNow, sysOffset, tzOffset)

\* line 159: account_time(custId).date()
account_date(now) == DateOf(now)

\* a number in decimal, at least width characters, zero padded
RECURSIVE Decimal(_, _)
Decimal(n, width) ==
    IF n < 10 /\ width <= 1 THEN <<DigitChars[n + 1]>>
    ELSE Append(Decimal(n \div 10, width - 1), DigitChars[(n % 10) + 1])

\* date.strftime("%Y-%m-%d")
StrFTime(t) == Decimal(t.y, 1) \o <<"-">> \o Decimal(t.m, 2) \o <<"-">> \o Decimal(t.d, 2)

\* sep.join(list) where the list holds strings (sequences of pieces)
RECURSIVE JoinWith(_, _)
JoinWith(sep, list) ==
    IF list = <<>> THEN <<>>
    ELSE IF Len(list) = 1 THEN list[1]
    ELSE list[1] \o sep \o JoinWith(sep, Tail(list))

\* lines 201-211: the default and the truncation of start and of end
DateBound(given, today) ==
    LET v == IF given = PyNone THEN today ELSE given
    IN  IF v.kind = "datetime" THEN DateOf(v) ELSE v

StartClause(t) == <<"segments.date >= '">> \o StrFTime(t) \o <<"'">>

EndClause(t) == <<"segments.date <= '">> \o StrFTime(t) \o <<"'">>

\* lines 213-230, given today; the query is a sequence of pieces of text,
\* a field name being the sequence of its characters
BuildQuery(fromResource, fields, start, end, zeroImpressions, today) ==
    LET wheres == (IF zeroImpressions = FALSE
                   THEN <<<<"metrics.impressions > 0">>>> ELSE <<>>)
                  \o <<StartClause(DateBound(start, today))>>
                  \o <<EndClause(DateBound(end, today))>>
    IN  <<"SELECT ">> \o JoinWith(<<", ">>, fields)
        \o <<" FROM ", fromResource, " ">>
        \o <<" WHERE ">> \o JoinWith(<<" AND ">>, wheres)

GivenDates ==
    {PyNone, PyDate(2022, 12, 1), PyDateTime(2022, 12, 1, 23),
     PyDate(2023, 1, 9)}

Clocks ==
    {PyDateTime(2022, 12, 31, h) : h \in {1, 12, 23}}
        \cup {PyDateTime(2024, 2, 29, h) : h \in {1, 23}}

\* UTC offsets, in hours, of the host and of the account
HostOffsets == {0, 2, 0 - 5}

AccountOffsets == {0, 9, 0 - 8}

\* snake_case dotted field names: "a", "b", "a.a_b"
FieldPool == {<<"a">>, <<"b">>, <<"a", ".", "a", "_", "b">>}

\* most fields of one call
MaxFields == 2

\* what the customer.time_zone search may do besides answering
ZoneSearchFailures == {Raised("GoogleAdsException"), Raised("RetryError")}

\* account_time, lines 139-146, once get_ga_api_service has ended: its
\* exception leaves the call, None has no search (AttributeError), and the
\* search fails, or answers with no row (list(response)[0] is an
\* IndexError), or gives the zone in which the clock is read
AccountTime ==
    /\ pc = "svc_done"
    /\ caller = "account_time"
    /\ pc' = "time_done"
    /\ IF svcResult.kind = "raise"
       THEN /\ qNow' = svcResult
            /\ UNCHANGED <<qUtcNow, qTzOffset, zoneSearches>>
       ELSE IF svcResult = PyNone
       THEN /\ qNow' = Raised("AttributeError")
            /\ UNCHANGED <<qUtcNow, qTzOffset, zoneSearches>>
       ELSE /\ zoneSearches' = zoneSearches + 1
            /\ \/ /\ \E failure \in ZoneSearchFailures : qNow' = failure
                  /\ UNCHANGED <<qUtcNow, qTzOffset>>
               \/ /\ qNow' = Raised("IndexError")
                  /\ UNCHANGED <<qUtcNow, qTzOffset>>
               \/ \E tz \in AccountOffsets, clock \in Clocks :
                    /\ qTzOffset' = tz
                    /\ qUtcNow' = clock
                    /\ qNow' = account_time(clock, qSysOffset, tz)
    /\ UNCHANGED <<entry, caller, custId, authLocals, queried, ssmReads,
                   clientBuilds, listCalls, streamCalls>>
    /\ UNCHANGED <<qStart, qEnd, qZero, qFields, qSysOffset, qResult>>
    /\ UNCHANGED <<caseVars, nestedVars, execVars>>

\* account_date, line 159
AccountDate ==
    /\ pc = "time_done"
    /\ entry = "account_date"
    /\ pc' = "date_done"
    /\ qResult' = IF qNow.kind = "raise" THEN qNow ELSE account_date(qNow)
    /\ UNCHANGED <<entry, caller, custId, authLocals, effects>>
    /\ UNCHANGED <<qStart, qEnd, qZero, qFields, qUtcNow, qSysOffset,
                   qTzOffset, qNow>>
    /\ UNCHANGED <<caseVars, nestedVars, execVars>>

\* make_base_query, lines 200-230, once account_date(custId) has ended
MakeBaseQuery ==
    /\ pc = "time_done"
    /\ entry \in {"make_base_query", "get_ga_data"}
    /\ pc' = "query_done"
    /\ IF qNow.kind = "raise"
       THEN qResult' = qNow
       ELSE LET today == account_date(qNow)
            IN  qResult' = [kind |-> "query",
                            text |-> BuildQuery("keyword_view", qFields, qStart,
                                                qEnd, qZero, today)]
    /\ UNCHANGED <<entry, caller, custId, authLocals, effects>>
    /\ UNCHANGED <<qStart, qEnd, qZero, qFields, qUtcNow, qSysOffset,
                   qTzOffset, qNow>>
    /\ UNCHANGED <<caseVars, nestedVars, execVars>>

----------------------------------------------------------------------------
(* execute_query, lines 252-268 *)

\* most batches of one stream, most records of one batch
MaxBatches == 2
MaxBatchLen == 2

\* MessageToDict(r._pb) of the records a stream may carry:
\* {"a": {"aB": 5}}, {"a": {}}, {"a": 5}, {"b": "b"}
RecordPool ==
    {PyDict(<<"a">> :> PyDict(<<"a", "B">> :> PyNum(5))),
     PyDict(<<"a">> :> PyDict(<<>>)),
     PyDict(<<"a">> :> PyNum(5)),
     PyDict(<<"b">> :> PyStr(<<"b">>))}

\* lines 261-263: the row of one record, or the exception of its first
\* failing lookup
RowOf(camelFields, rDict) ==
    LET got == [i \in 1..Len(camelFields) |->
                   get_nested_dict_value(camelFields[i], rDict)]
        bad == {i \in 1..Len(camelFields) : got[i].kind = "raise"}
    IN  IF bad = {}
        THEN [kind |-> "row", cells |-> [i \in 1..Len(camelFields) |-> got[i].value]]
        ELSE got[CHOOSE i \in bad : \A j \in bad : i <= j]

\* lines 259-265 for the records of one batch, after the rows so far
RECURSIVE RowsOf(_, _, _)
RowsOf(camelFields, records, rows) ==
    IF records = <<>> THEN [kind |-> "rows", rows |-> rows]
    ELSE LET row == RowOf(camelFields, Head(records))
         IN  IF row.kind = "raise" THEN row
             ELSE RowsOf(camelFields, Tail(records), Append(rows, row.cells))

\* what search_stream, or reading its stream, may do besides giving batches
StreamFailures == {Raised("GoogleAdsException")}

\* lines 252-254: the camelCase fields, then the call of get_ga_api_service,
\* which starts with locals of its own
ExecStart ==
    /\ pc = "exec_start"
    /\ xCamel' = [i \in 1..Len(xFields) |-> snake_to_camel(xFields[i])]
    /\ caller' = "execute_query"
    /\ pc' = "svc_start"
    /\ refreshToken' = Pending
    /\ directIds' = <<>>
    /\ hierarchy' = <<>>
    /\ tried' = 0
    /\ loginResult' = Pending
    /\ svcResult' = Pending
    /\ UNCHANGED <<entry, custId, effects>>
    /\ UNCHANGED <<dWheres, xFields, xQuery, xStream, xRows, xResult>>
    /\ UNCHANGED <<caseVars, nestedVars, queryVars>>

\* line 255, once get_ga_api_service has ended: its exception leaves the
\* call, None has no search_stream (AttributeError), and search_stream
\* either fails or gives the stream
ExecOpen ==
    /\ pc = "svc_done"
    /\ caller = "execute_query"
    /\ IF svcResult.kind = "raise"
       THEN /\ xResult' = svcResult
            /\ pc' = "exec_done"
            /\ UNCHANGED streamCalls
       ELSE IF svcResult = PyNone
       THEN /\ xResult' = Raised("AttributeError")
            /\ pc' = "exec_done"
            /\ UNCHANGED streamCalls
       ELSE /\ streamCalls' = streamCalls + 1
            /\ \/ /\ \E failure \in StreamFailures : xResult' = failure
                  /\ pc' = "exec_done"
               \/ /\ pc' = "exec_stream"
                  /\ UNCHANGED xResult
    /\ UNCHANGED <<entry, caller, custId, authLocals, queried, ssmReads,
                   clientBuilds, listCalls, zoneSearches>>
    /\ UNCHANGED <<dWheres, xFields, xQuery, xCamel, xStream, xRows>>
    /\ UNCHANGED <<caseVars, nestedVars, queryVars>>

\* lines 258-265: the stream yields one more batch
ExecBatch ==
    /\ pc = "exec_stream"
    /\ Len(xStream) < MaxBatches
    /\ \E batch \in SeqsUpTo(RecordPool, MaxBatchLen) :
         /\ xStream' = Append(xStream, batch)
         /\ LET out == RowsOf(xCamel, batch, xRows)
            IN  IF out.kind = "raise"
                THEN /\ xResult' = out
                     /\ pc' = "exec_done"
                     /\ UNCHANGED xRows
                ELSE /\ xRows' = out.rows
                     /\ UNCHANGED <<xResult, pc>>
    /\ UNCHANGED <<entry, caller, custId, authLocals, effects>>
    /\ UNCHANGED <<dWheres, xFields, xQuery, xCamel>>
    /\ UNCHANGED <<caseVars, nestedVars, queryVars>>

\* line 258: the stream breaks while it is read
ExecStreamFails ==
    /\ pc = "exec_stream"
    /\ \E failure \in StreamFailures : xResult' = failure
    /\ pc' = "exec_done"
    /\ UNCHANGED <<entry, caller, custId, authLocals, effects>>
    /\ UNCHANGED <<dWheres, xFields, xQuery, xCamel, xStream, xRows>>
    /\ UNCHANGED <<caseVars, nestedVars, queryVars>>

\* lines 267-268: the stream ended; pandas.DataFrame(rows, columns=fields)
ExecFinish ==
    /\ pc = "exec_stream"
    /\ xResult' = [kind |-> "DataFrame", columns |-> xFields, rows |-> xRows]
    /\ pc' = "exec_done"
    /\ UNCHANGED <<entry, caller, custId, authLocals, effects>>
    /\ UNCHANGED <<dWheres, xFields, xQuery, xCamel, xStream, xRows>>
    /\ UNCHANGED <<caseVars, nestedVars, queryVars>>

----------------------------------------------------------------------------
(* get_ga_data, lines 313-319 *)

Idle == [kind |-> "idle"]

\* additional WHERE clauses, each one piece of text
WhereLists ==
    {<<>>, <<<<"campaign.status = 'ENABLED'">>>>,
     <<<<"campaign.status = 'ENABLED'">>, <<"ad_group.id = 7">>>>}

\* lines 313-318, once make_base_query has ended: its exception leaves the
\* call; otherwise the wheres, when there are any, are appended with " AND "
\* and execute_query is called with the query and the same fields.  The
\* locals of the call of make_base_query are gone.
GetGaData ==
    /\ pc = "query_done"
    /\ entry = "get_ga_data"
    /\ IF qResult.kind = "raise"
       THEN /\ xResult' = qResult
            /\ pc' = "exec_done"
            /\ UNCHANGED xQuery
       ELSE /\ xQuery' = IF dWheres # <<>>
                         THEN qResult.text \o <<" AND ">>
                                  \o JoinWith(<<" AND ">>, dWheres)
                         ELSE qResult.text
            /\ pc' = "exec_start"
            /\ UNCHANGED xResult
    /\ qUtcNow' = Idle
    /\ qTzOffset' = 0
    /\ qNow' = Idle
    /\ UNCHANGED <<qStart, qEnd, qZero, qFields, qSysOffset, qResult>>
    /\ UNCHANGED <<entry, caller, custId, authLocals, effects>>
    /\ UNCHANGED <<dWheres, xFields, xCamel, xStream, xRows>>
    /\ UNCHANGED <<caseVars, nestedVars>>

----------------------------------------------------------------------------
(* Specifications: one call of one public operation each *)

NoEffects ==
    /\ queried = 0
    /\ ssmReads = 0
    /\ clientBuilds = 0
    /\ listCalls = 0
    /\ zoneSearches = 0
    /\ streamCalls = 0

AuthIdle ==
    /\ entry = "none"
    /\ pc = "idle"
    /\ caller = "none"
    /\ custId = <<>>
    /\ refreshToken = Idle
    /\ directIds = <<>>
    /\ hierarchy = <<>>
    /\ tried = 0
    /\ loginResult = Idle
    /\ svcResult = Idle
    /\ NoEffects

\* the locals of get_ga_api_service and get_login_customer_id before a call
AuthFresh ==
    /\ directIds = <<>>
    /\ hierarchy = <<>>
    /\ tried = 0
    /\ loginResult = Pending
    /\ svcResult = Pending
    /\ NoEffects

CaseIdle == ident = Idle /\ snake = Idle /\ camel = Idle

NestedIdle == nKey = Idle /\ nDict = Idle /\ nResult = Idle

\* the clock and the account's zone, before account_time has read them
ClockUnread == qUtcNow = Idle /\ qTzOffset = 0 /\ qNow = Pending

QueryIdle ==
    /\ qStart = Idle
    /\ qEnd = Idle
    /\ qZero = FALSE
    /\ qFields = <<>>
    /\ qUtcNow = Idle
    /\ qSysOffset = 0
    /\ qTzOffset = 0
    /\ qNow = Idle
    /\ qResult = Idle

ExecIdle ==
    /\ dWheres = <<>>
    /\ xFields = <<>>
    /\ xQuery = <<>>
    /\ xCamel = <<>>
    /\ xStream = <<>>
    /\ xRows = <<>>
    /\ xResult = Idle

InitAuth ==
    /\ entry \in {"get_login_customer_id", "get_ga_api_service"}
    /\ custId \in IdStrings
    /\ pc = (IF entry = "get_login_customer_id" THEN "login_start"
             ELSE "svc_start")
    /\ caller = (IF entry = "get_login_customer_id" THEN "none" ELSE "top")
    /\ refreshToken = (IF entry = "get_login_customer_id" THEN Token
                       ELSE Pending)
    /\ AuthFresh
    /\ CaseIdle /\ NestedIdle /\ QueryIdle /\ ExecIdle

NextAuth ==
    LoginList \/ LoginQuery \/ LoginNotFound \/ ServiceLookup \/ ServiceBuild

SpecAuth == InitAuth /\ [][NextAuth]_vars

InitCase ==
    /\ ident \in {PyStr(s) : s \in SeqsUpTo(IdentChars, MaxIdentLen)}
    /\ snake = Pending
    /\ camel = Pending
    /\ AuthIdle /\ NestedIdle /\ QueryIdle /\ ExecIdle

NextCase == CamelToSnake \/ SnakeToCamel

SpecCase == InitCase /\ [][NextCase]_vars

InitNested ==
    /\ nKey \in {PyStr(s) : s \in SeqsUpTo(KeyChars, MaxKeyLen)}
    /\ nDict \in NestedDicts
    /\ nResult = Pending
    /\ AuthIdle /\ CaseIdle /\ QueryIdle /\ ExecIdle

NextNested == GetNested

SpecNested == InitNested /\ [][NextNested]_vars

\* account_time, account_date and make_base_query: each starts by asking
\* get_ga_api_service for the service (line 139)
InitQuery ==
    /\ entry \in {"account_time", "account_date", "make_base_query"}
    /\ custId \in IdStrings
    /\ pc = "svc_start"
    /\ caller = "account_time"
    /\ refreshToken = Pending
    /\ AuthFresh
    /\ qSysOffset \in HostOffsets
    /\ ClockUnread
    /\ qResult = Pending
    /\ IF entry = "make_base_query"
       THEN /\ qStart \in GivenDates
            /\ qEnd \in GivenDates
            /\ qZero \in BOOLEAN
            /\ qFields \in SeqsUpTo(FieldPool, MaxFields) \ {<<>>}
       ELSE /\ qStart = Idle
            /\ qEnd = Idle
            /\ qZero = FALSE
            /\ qFields = <<>>
    /\ CaseIdle /\ NestedIdle /\ ExecIdle

NextQuery ==
    \/ ServiceLookup \/ LoginList \/ LoginQuery \/ LoginNotFound \/ ServiceBuild
    \/ AccountTime \/ AccountDate \/ MakeBaseQuery

SpecQuery == InitQuery /\ [][NextQuery]_vars

InitExec ==
    /\ entry = "execute_query"
    /\ custId \in IdStrings
    /\ pc = "exec_start"
    /\ caller = "none"
    /\ refreshToken = Pending
    /\ AuthFresh
    /\ dWheres = <<>>
    /\ xFields \in SeqsUpTo(FieldPool, MaxFields) \ {<<>>}
    /\ xQuery = <<"SELECT a FROM keyword_view">>
    /\ xCamel = <<>>
    /\ xStream = <<>>
    /\ xRows = <<>>
    /\ xResult = Pending
    /\ CaseIdle /\ NestedIdle /\ QueryIdle

NextExec ==
    \/ ExecStart
    \/ ServiceLookup \/ LoginList \/ LoginQuery \/ LoginNotFound \/ ServiceBuild
    \/ ExecOpen \/ ExecBatch \/ ExecStreamFails \/ ExecFinish

SpecExec == InitExec /\ [][NextExec]_vars

\* get_ga_data: make_base_query, the wheres, then execute_query
InitData ==
    /\ entry = "get_ga_data"
    /\ custId = <<"1">>
    /\ pc = "svc_start"
    /\ caller = "account_time"
    /\ refreshToken = Pending
    /\ AuthFresh
    /\ qSysOffset \in {0, 2}
    /\ ClockUnread
    /\ qResult = Pending
    /\ qStart \in {PyNone, PyDate(2022, 12, 1)}
    /\ qEnd = PyNone
    /\ qZero = FALSE
    /\ qFields = <<<<"a", ".", "a", "_", "b">>>>
    /\ dWheres \in WhereLists
    /\ xFields = qFields
    /\ xQuery = <<>>
    /\ xCamel = <<>>
    /\ xStream = <<>>
    /\ xRows = <<>>
    /\ xResult = Pending
    /\ CaseIdle /\ NestedIdle

NextData ==
    \/ ServiceLookup \/ LoginList \/ LoginQuery \/ LoginNotFound \/ ServiceBuild
    \/ AccountTime \/ MakeBaseQuery \/ GetGaData
    \/ ExecStart \/ ExecOpen \/ ExecBatch \/ ExecStreamFails \/ ExecFinish

SpecData == InitData /\ [][NextData]_vars

Init == InitAuth \/ InitCase \/ InitNested \/ InitQuery \/ InitExec \/ InitData

Next ==
    \/ LoginList \/ LoginQuery \/ LoginNotFound \/ ServiceLookup \/ ServiceBuild
    \/ CamelToSnake \/ SnakeToCamel
    \/ GetNested
    \/ AccountTime \/ AccountDate \/ MakeBaseQuery
    \/ ExecStart \/ ExecOpen \/ ExecBatch \/ ExecStreamFails \/ ExecFinish
    \/ GetGaData

Spec == Init /\ [][Next]_vars

----------------------------------------------------------------------------
(* Properties of get_login_customer_id and get_ga_api_service (SpecAuth) *)

LoginFinished == loginResult.kind \in {"return", "None", "raise"}

\* the target is one of the listed top-level accounts, as a string
TargetListed == \E i \in 1..Len(directIds) : directIds[i] = custId

\* parent p's query succeeded and its client list holds the target's number
Matches(p) ==
    /\ hierarchy[p].kind = "ok"
    /\ \E i \in 1..Len(hierarchy[p].results) :
         hierarchy[p].results[i] = PyInt(custId)

\* parent p's query failed at service level, or succeeded without the target
NoAnswer(p) ==
    \/ hierarchy[p] = Raised("GoogleAdsException")
    \/ hierarchy[p].kind = "ok" /\ ~Matches(p)

\* C1: when the target is not listed itself, and parent P's query succeeds
\* with the target in its client list, and every parent listed before P
\* failed with a service-level error (GoogleAdsException) or answered
\* without the target, the search returns P: the earlier failures are
\* skipped and are not raised to the caller.
C1_FailedParentsSkipped ==
    (LoginFinished /\ ~TargetListed) =>
        \A p \in 1..Len(hierarchy) :
            (Matches(p) /\ \A j \in 1..(p - 1) : NoAnswer(j))
                => loginResult = Returned(directIds[p])

C1_Witness ==
    /\ LoginFinished
    /\ ~TargetListed
    /\ Len(hierarchy) = 2
    /\ hierarchy[1] = Raised("GoogleAdsException")
    /\ Matches(2)
    /\ queried = 2
    /\ loginResult = Returned(directIds[2])

\* C2 as claimed: a parent whose query exceeds its retry budget (RetryError)
\* is skipped, the search is not aborted and nothing is raised.
C2_RetryBudgetSkipped ==
    (LoginFinished /\ ~TargetListed) =>
        \A p \in 1..Len(hierarchy) :
            (hierarchy[p] = Raised("RetryError") /\ \A j \in 1..(p - 1) : NoAnswer(j))
                => loginResult.kind # "raise"

\* C2 amended: a parent whose query exceeds its retry budget raises
\* RetryError, which "except GoogleAdsException" does not catch: the search
\* ends at that parent with the RetryError raised to the caller, and no
\* later parent is queried.
C2_RetryErrorAborts ==
    (LoginFinished /\ ~TargetListed) =>
        \A p \in 1..Len(hierarchy) :
            (hierarchy[p] = Raised("RetryError") /\ \A j \in 1..(p - 1) : NoAnswer(j))
                => (loginResult = Raised("RetryError") /\ queried = p)

C2_Witness ==
    /\ LoginFinished
    /\ ~TargetListed
    /\ Len(hierarchy) = 2
    /\ hierarchy[1] = Raised("RetryError")
    /\ Matches(2)
    /\ queried = 1
    /\ loginResult = Raised("RetryError")

\* C3: for a target that is not listed itself, a search that ends without
\* an exception returns the first parent, in listing order, whose query
\* succeeded with the target's number in its client list, and has queried
\* exactly the parents up to that one: none after it.
C3_FirstMatchingParent ==
    (/\ LoginFinished
     /\ ~TargetListed
     /\ loginResult.kind # "raise"
     /\ \E p \in 1..Len(hierarchy) : Matches(p)) =>
        LET first == CHOOSE p \in 1..Len(hierarchy) :
                        Matches(p) /\ \A j \in 1..(p - 1) : ~Matches(j)
        IN  loginResult = Returned(directIds[first]) /\ queried = first

C3_Witness ==
    /\ LoginFinished
    /\ ~TargetListed
    /\ Len(hierarchy) = 2
    /\ Matches(1)
    /\ Matches(2)
    /\ directIds[1] # directIds[2]
    /\ custId = <<"0", "1">>
    /\ loginResult = Returned(directIds[1])
    /\ queried = 1

\* C4: a target that is itself in the listing of top-level accounts is
\* returned unchanged, and no hierarchy query is issued.
C4_ListedTargetReturned ==
    (LoginFinished /\ TargetListed) =>
        (loginResult = Returned(custId) /\ queried = 0)

C4_Witness ==
    /\ LoginFinished
    /\ Len(directIds) = 2
    /\ directIds[1] # custId
    /\ directIds[2] = custId
    /\ loginResult = Returned(custId)
    /\ queried = 0

\* C5: the search never issues more than one query per listed parent; and
\* when the target is not listed and every parent's query fails at service
\* level or answers without the target (an empty listing included), the
\* search ends with None, having queried each parent once.
C5_NotFound ==
    /\ queried <= Len(directIds)
    /\ (/\ LoginFinished
        /\ ~TargetListed
        /\ \A p \in 1..Len(hierarchy) : NoAnswer(p)) =>
           (loginResult = PyNone /\ queried = Len(directIds))

C5_Witness ==
    /\ LoginFinished
    /\ ~TargetListed
    /\ Len(hierarchy) = 2
    /\ hierarchy[1] = Raised("GoogleAdsException")
    /\ hierarchy[2].kind = "ok"
    /\ hierarchy[2].results # <<>>
    /\ ~Matches(2)
    /\ loginResult = PyNone
    /\ queried = 2

\* C6: when the account lookup gives no refresh token, get_ga_api_service
\* has ended with None: no secrets-store read, no listing, no login-customer
\* search and no client construction has happened, and nothing is raised.
C6_NoTokenNoService ==
    (entry = "get_ga_api_service" /\ refreshToken = PyNone) =>
        /\ pc = "svc_done"
        /\ svcResult = PyNone
        /\ ssmReads = 0
        /\ clientBuilds = 0
        /\ listCalls = 0
        /\ queried = 0
        /\ loginResult = Pending

C6_Witness ==
    /\ entry = "get_ga_api_service"
    /\ refreshToken = PyNone
    /\ pc = "svc_done"
    /\ svcResult = PyNone

----------------------------------------------------------------------------
(* Properties of get_nested_dict_value and execute_query *)

\* the value the path leads to: the walk's value when every segment is a
\* key of the mapping reached so far, None otherwise
RECURSIVE PathValue(_, _)
PathValue(keys, d) ==
    IF keys = <<>> THEN d
    ELSE IF d.kind = "dict" /\ Head(keys) \in DOMAIN d.items
         THEN PathValue(Tail(keys), d.items[Head(keys)])
         ELSE PyNone

\* C7: get_nested_dict_value returns the value the dotted path leads to, and
\* None, without raising, when a segment is missing at any depth, also
\* when the walk reaches a leaf that is no mapping before the path ends.
C7_MissingSegmentGivesNone ==
    (nResult.kind \in {"return", "raise"}) =>
        nResult = ReturnedValue(PathValue(SplitOn(nKey.s, "."), nDict))

\* the records of a stream, in arrival order
RECURSIVE Flatten(_)
Flatten(batches) ==
    IF batches = <<>> THEN <<>> ELSE Head(batches) \o Flatten(Tail(batches))

\* search_stream gave a stream, and the stream was read to its end
StreamRead == streamCalls = 1 /\ xResult \notin StreamFailures

\* C8: with a stream to read, execute_query ends with a table whose columns
\* are the fields as given and which has one row per record of the stream,
\* in arrival order, each row with one entry per field: the value its path
\* leads to in the record, None where it leads nowhere.
C8_OneRowPerRecord ==
    (pc = "exec_done" /\ StreamRead) =>
        LET records == Flatten(xStream)
        IN  /\ xResult.kind = "DataFrame"
            /\ xResult.columns = xFields
            /\ Len(xResult.rows) = Len(records)
            /\ \A r \in 1..Len(records) :
                 /\ Len(xResult.rows[r]) = Len(xFields)
                 /\ \A f \in 1..Len(xFields) :
                      xResult.rows[r][f] =
                          PathValue(SplitOn(snake_to_camel(xFields[f]), "."),
                                    records[r])

----------------------------------------------------------------------------
(* Properties of make_base_query (SpecQuery) *)

\* the date on the account's clock: the UTC time shown in the account's zone
AccountLocalDate == DateOf(ShiftHours(qUtcNow, qTzOffset))

\* the date a bound must carry: the account's current date when omitted, the
\* date of a date-time, the date itself
ExpectedBound(given) ==
    IF given = PyNone THEN AccountLocalDate
    ELSE PyDate(given.y, given.m, given.d)

\* C9: a returned query has a WHERE clause with a "segments.date >=" bound
\* and a "segments.date <=" bound; an omitted start or end is the account's
\* current local date (so both are equal when both are omitted), and a
\* date-time is cut to its date.
C9_BothDateBounds ==
    (entry = "make_base_query" /\ qResult.kind = "query") =>
        /\ IsSubstring(<<" WHERE ">>, qResult.text)
        /\ IsSubstring(StartClause(ExpectedBound(qStart)), qResult.text)
        /\ IsSubstring(EndClause(ExpectedBound(qEnd)), qResult.text)

----------------------------------------------------------------------------
(* Properties of the string-case helpers (SpecCase) *)

NoTwoUppersInARow(s) ==
    \A i \in 1..(Len(s) - 1) : ~(IsUpper(s[i]) /\ IsUpper(s[i + 1]))

\* a simple identifier: ASCII letters and digits only
SimpleIdentifier(s) ==
    \A i \in 1..Len(s) :
        IsUpper(s[i]) \/ IsLower(s[i]) \/ (\E n \in 1..10 : DigitChars[n] = s[i])

\* C10 as claimed: every simple identifier without two consecutive uppercase
\* letters comes back unchanged from camel_to_snake then snake_to_camel.
C10_RoundTrip ==
    (/\ camel.kind = "str"
     /\ SimpleIdentifier(ident.s)
     /\ NoTwoUppersInARow(ident.s)) => camel.s = ident.s

\* C10 amended: every simple identifier that does not start with an
\* uppercase letter and has no two consecutive uppercase letters comes back
\* unchanged from camel_to_snake then snake_to_camel.
C10_RoundTripLowerCamel ==
    (/\ camel.kind = "str"
     /\ SimpleIdentifier(ident.s)
     /\ NoTwoUppersInARow(ident.s)
     /\ (ident.s # <<>> => ~IsUpper(ident.s[1]))) => camel.s = ident.s

C10_Witness ==
    /\ camel.kind = "str"
    /\ ident.s = <<"a", "B", "a">>
    /\ snake.s = <<"a", "_", "b", "a">>
    /\ camel.s = ident.s

====
